---- MODULE Spec2Model ----
(***************************************************************************)
(* Magic-link access control of the candidates portal: the plpgsql        *)
(* function validate_magic_link_access with the tables it reads and       *)
(* writes (chat_conversations, magic_link_access_log), the admin unlock,  *)
(* the resend handler that rotates tokens and the message handler.        *)
(*                                                                         *)
(* Time is counted in minutes.  A nullable column holds <<>> for NULL and *)
(* <<v>> for the value v.  A user agent is a sequence of characters.      *)
(***************************************************************************)
EXTENDS Integers, Sequences, FiniteSets, TLC

\* ------------------------------------------------------------------ bounds
MaxLog == 3
MaxLogRate == 6
MaxLogChat == 2
MaxLogDaily == 11
MaxLogAgents == 2
MaxLogRace == 3
MaxLogRaceRate == 6
MaxLogToken == 2
MaxLogHandler == 2
MaxStarted == 2

\* ------------------------------------------------------- program constants
max_daily_attempts == 10
max_hourly_attempts == 5
rate_limit_window_hours == 1
rate_limit_window_days == 1
rapid_window_minutes == 5
rapid_max_attempts == 3
token_lifetime_days == 7
resend_margin_minutes == 60

MinutesPerHour == 60
MinutesPerDay == 1440
c2_expires_at == MinutesPerHour

\* ------------------------------------------------------------------ values
NULL == <<>>
Some(v) == <<v>>

ConvIds == {"c1", "c2"}
UnknownId == "c0"
Tokens == {"T1", "T2", "T3"}
IPs == {"ip1", "ip2"}

UA_Mozilla == <<"M", "o", "z">>
UA_Curl == <<"c", "u", "r", "l", "/", "8">>
UA_Python == <<"P", "y", "t", "h", "o", "n", "-", "r", "e", "q">>
UserAgents == {NULL, Some(UA_Mozilla), Some(UA_Curl), Some(UA_Python)}

\* User agents of runtimes and browser tooling, as the HTTP handler sees them.
UA_Java == <<"J", "a", "v", "a", "/", "1", "7">>
UA_Node == <<"n", "o", "d", "e", "-", "f", "e", "t", "c", "h">>
UA_Headless == <<"H", "e", "a", "d", "l", "e", "s", "s", "C", "h", "r", "o", "m", "e">>
UA_Wget == <<"W", "g", "e", "t", "/", "1">>
AgentUserAgents ==
    { Some(UA_Mozilla), Some(UA_Curl), Some(UA_Wget), Some(UA_Java), Some(UA_Node),
      Some(UA_Headless) }
Fingerprints == {NULL}

\* The requests of the bounded runs: a token with the address and the user
\* agent it is presented with.
Request(t, ip, ua) == [talent_token |-> t, ip_address |-> ip, user_agent |-> ua]

Requests ==
    { Request(t, "ip1", Some(UA_Mozilla)) : t \in Tokens } \cup
    { Request(t, "ip2", Some(UA_Curl)) : t \in Tokens } \cup
    { Request("T1", "ip1", NULL) }

\* Deep runs on few requests, for the rolling counts.
RateRequests ==
    { Request("T1", "ip1", Some(UA_Mozilla)), Request("T2", "ip1", Some(UA_Curl)),
      Request("T1", "ip2", NULL), Request("T3", "ip1", Some(UA_Mozilla)) }

\* Shallow runs with the message handler.
ChatRequests ==
    { Request("T1", "ip1", Some(UA_Mozilla)), Request("T2", "ip2", Some(UA_Python)),
      Request("T3", "ip1", NULL) }

AllRequests == { Request(t, ip, ua) : t \in Tokens, ip \in IPs, ua \in UserAgents }

SuspiciousReason == "Suspicious access pattern detected"

VARIABLES conv, log, now, issued, ret, calls, peak, started
vars == <<conv, log, now, issued, ret, calls, peak, started>>

\* The calls in flight: one per connection.  A connection is idle, or runs a
\* call that has executed its statements up to pc.
Procs == {"p1", "p2"}

IdleCall ==
    [ pc |-> "idle", rq |-> NULL, started_at |-> 0, record |-> NULL,
      is_suspicious |-> FALSE ]

\* Nothing in flight, and no conversation created since the start of the run.
Quiet ==
    /\ calls = [p \in Procs |-> IdleCall]
    /\ peak = 0
    /\ started = <<>>

\* ------------------------------------------------- bot signature (regex ~*)
Lower(ch) ==
    CASE ch = "A" -> "a" [] ch = "B" -> "b" [] ch = "C" -> "c"
      [] ch = "D" -> "d" [] ch = "E" -> "e" [] ch = "F" -> "f"
      [] ch = "G" -> "g" [] ch = "H" -> "h" [] ch = "I" -> "i"
      [] ch = "J" -> "j" [] ch = "K" -> "k" [] ch = "L" -> "l"
      [] ch = "M" -> "m" [] ch = "N" -> "n" [] ch = "O" -> "o"
      [] ch = "P" -> "p" [] ch = "Q" -> "q" [] ch = "R" -> "r"
      [] ch = "S" -> "s" [] ch = "T" -> "t" [] ch = "U" -> "u"
      [] ch = "V" -> "v" [] ch = "W" -> "w" [] ch = "X" -> "x"
      [] ch = "Y" -> "y" [] ch = "Z" -> "z"
      [] OTHER -> ch

LowerSeq(s) == [i \in 1..Len(s) |-> Lower(s[i])]

Contains(s, pat) ==
    \E i \in 0..(Len(s) - Len(pat)) :
        \A j \in 1..Len(pat) : s[i + j] = pat[j]

BotPatterns ==
    { <<"b", "o", "t">>,
      <<"c", "r", "a", "w", "l", "e", "r">>,
      <<"s", "p", "i", "d", "e", "r">>,
      <<"s", "c", "r", "a", "p", "e", "r">>,
      <<"c", "u", "r", "l">>,
      <<"w", "g", "e", "t">>,
      <<"p", "y", "t", "h", "o", "n">>,
      <<"g", "o", "-", "h", "t", "t", "p">>,
      <<"o", "k", "h", "t", "t", "p">> }

UaEqualsBot(p_user_agent) ==
    /\ p_user_agent # NULL
    /\ LowerSeq(p_user_agent[1]) \in BotPatterns

UaMatchesBot(p_user_agent) ==
    /\ p_user_agent # NULL
    /\ \E pat \in BotPatterns : Contains(LowerSeq(p_user_agent[1]), pat)

\* ------------------------------------------------------------ table access
Found(p_talent_token) == \E c \in ConvIds : conv[c].talent_token = p_talent_token

ConvOfToken(p_talent_token) ==
    CHOOSE c \in ConvIds : conv[c].talent_token = p_talent_token

\* fk_magic_link_access_log_token: a log row must reference an existing token
FkHolds(cv, lg) ==
    \A i \in 1..Len(lg) : \E c \in ConvIds : cv[c].talent_token = lg[i].talent_token

LogRow(p_talent_token, p_ip_address, p_user_agent, result, p_fingerprint_data) ==
    [ talent_token |-> p_talent_token,
      ip_address |-> p_ip_address,
      user_agent |-> p_user_agent,
      access_result |-> result,
      fingerprint_data |-> p_fingerprint_data,
      created_at |-> now ]

CountSinceSuccessOnly(p_ip_address, window) ==
    Cardinality({ i \in 1..Len(log) :
        /\ log[i].ip_address = p_ip_address
        /\ log[i].access_result = "success"
        /\ log[i].created_at > now - window })

CountSince(p_ip_address, window) ==
    Cardinality({ i \in 1..Len(log) :
        /\ log[i].ip_address = p_ip_address
        /\ log[i].created_at > now - window })

CountForTokenIpSince(p_talent_token, p_ip_address, window) ==
    Cardinality({ i \in 1..Len(log) :
        /\ log[i].talent_token = p_talent_token
        /\ log[i].ip_address = p_ip_address
        /\ log[i].created_at > now - window })

HourlyAttemptsRapidWindow(p_ip_address) ==
    CountSince(p_ip_address, rapid_window_minutes)

HourlyAttempts(p_ip_address) ==
    CountSince(p_ip_address, rate_limit_window_hours * MinutesPerHour)

DailyAttemptsHourWindow(p_ip_address) ==
    CountSince(p_ip_address, rate_limit_window_days * MinutesPerHour)

DailyAttempts(p_ip_address) ==
    CountSince(p_ip_address, rate_limit_window_days * MinutesPerDay)

RapidAttempts(p_talent_token, p_ip_address) ==
    CountForTokenIpSince(p_talent_token, p_ip_address, rapid_window_minutes)

IsSuspiciousStrict(p_talent_token, p_ip_address, p_user_agent) ==
    \/ RapidAttempts(p_talent_token, p_ip_address) > rapid_max_attempts
    \/ UaMatchesBot(p_user_agent)

IsSuspicious(p_talent_token, p_ip_address, p_user_agent) ==
    \/ RapidAttempts(p_talent_token, p_ip_address) >= rapid_max_attempts
    \/ UaMatchesBot(p_user_agent)

\* ------------------------------------------------------------ return values
\* What the last call gave back to its caller.
Returned(op, id, ok, err, count) ==
    [ op |-> op, id |-> id, raised |-> FALSE, success |-> ok, error |-> err,
      access_count |-> count ]

Raised(op, err) ==
    [ op |-> op, id |-> NULL, raised |-> TRUE, success |-> FALSE, error |-> err,
      access_count |-> NULL ]

\* The call was aborted by a failure of the statement stmt.
Aborted(op, stmt) ==
    [ op |-> op, id |-> Some(stmt), raised |-> TRUE, success |-> FALSE,
      error |-> "storage_failure", access_count |-> NULL ]

\* ------------------------------------------------------------------- Init
NewConversation(token, expires) ==
    [ talent_token |-> token,
      token_expires_at |-> expires,
      status |-> "active",
      is_locked |-> FALSE,
      lock_reason |-> NULL,
      access_count |-> 0,
      last_accessed_at |-> NULL,
      last_accessed_ip |-> NULL,
      user_agent |-> NULL,
      last_message_at |-> NULL ]

\* c1 was started at time 0; c2 was started an hour short of seven days
\* earlier, so its token expires at minute 60.
Init ==
    /\ conv = [c \in ConvIds |->
                 IF c = "c1"
                 THEN NewConversation("T1", token_lifetime_days * MinutesPerDay)
                 ELSE NewConversation("T2", c2_expires_at)]
    /\ log = <<>>
    /\ now = 0
    /\ issued = {"T1", "T2"}
    /\ ret = Returned("init", NULL, TRUE, NULL, NULL)
    /\ Quiet

\* ------------------------------------------------ validate_magic_link_access
\* INSERT INTO magic_link_access_log: the row is appended, or the statement
\* raises foreign_key_violation when no conversation holds the row's token.
InsertRaises(p_talent_token) == ~Found(p_talent_token)

LockedConvNoReason(c) ==
    [conv EXCEPT ![c].is_locked = TRUE]

LockedConv(c) ==
    [conv EXCEPT ![c].is_locked = TRUE, ![c].lock_reason = Some(SuspiciousReason)]

TrackedConvStaleAgent(c, p_ip_address, p_user_agent) ==
    [conv EXCEPT ![c].access_count = @ + 1,
                 ![c].last_accessed_at = Some(now),
                 ![c].last_accessed_ip = Some(p_ip_address)]

TrackedConv(c, p_ip_address, p_user_agent) ==
    [conv EXCEPT ![c].access_count = @ + 1,
                 ![c].last_accessed_at = Some(now),
                 ![c].last_accessed_ip = Some(p_ip_address),
                 ![c].user_agent = p_user_agent]

DecisionExpiryFirst(p_talent_token, p_ip_address, p_user_agent) ==
    IF ~Found(p_talent_token) THEN "invalid_token"
    ELSE LET c == ConvOfToken(p_talent_token) IN
         IF conv[c].token_expires_at <= now THEN "token_expired"
         ELSE IF conv[c].is_locked THEN "conversation_locked"
         ELSE IF HourlyAttempts(p_ip_address) >= max_hourly_attempts THEN "rate_limited"
         ELSE IF DailyAttempts(p_ip_address) >= max_daily_attempts THEN "daily_limit_exceeded"
         ELSE IF IsSuspicious(p_talent_token, p_ip_address, p_user_agent)
              THEN "suspicious_activity"
         ELSE "success"

\* The decision of lines 60..170: the error code, or "success".
Decision(p_talent_token, p_ip_address, p_user_agent) ==
    IF ~Found(p_talent_token) THEN "invalid_token"
    ELSE LET c == ConvOfToken(p_talent_token) IN
         IF conv[c].is_locked THEN "conversation_locked"
         ELSE IF conv[c].token_expires_at <= now THEN "token_expired"
         ELSE IF HourlyAttempts(p_ip_address) >= max_hourly_attempts THEN "rate_limited"
         ELSE IF DailyAttempts(p_ip_address) >= max_daily_attempts THEN "daily_limit_exceeded"
         ELSE IF IsSuspicious(p_talent_token, p_ip_address, p_user_agent)
              THEN "suspicious_activity"
         ELSE "success"

LoggedResultRaw(decision) ==
    CASE decision = "invalid_token" -> "invalid"
      [] decision = "conversation_locked" -> "blocked"
      [] decision = "token_expired" -> "expired"
      [] decision = "rate_limited" -> "rate_limited"
      [] decision = "daily_limit_exceeded" -> "rate_limited"
      [] decision = "suspicious_activity" -> "suspicious_activity"
      [] decision = "success" -> "success"

\* The access_result logged on each branch.
LoggedResult(decision) ==
    CASE decision = "invalid_token" -> "invalid"
      [] decision = "conversation_locked" -> "blocked"
      [] decision = "token_expired" -> "expired"
      [] decision = "rate_limited" -> "rate_limited"
      [] decision = "daily_limit_exceeded" -> "rate_limited"
      [] decision = "suspicious_activity" -> "blocked"
      [] decision = "success" -> "success"

ConvAfterBlockedClears(decision, c, p_ip_address, p_user_agent) ==
    CASE decision = "suspicious_activity" -> LockedConv(c)
      [] decision = "success" -> TrackedConv(c, p_ip_address, p_user_agent)
      [] decision = "conversation_locked" ->
             [conv EXCEPT ![c].is_locked = FALSE, ![c].lock_reason = NULL]
      [] OTHER -> conv

ConvAfterExpiredCounts(decision, c, p_ip_address, p_user_agent) ==
    CASE decision = "suspicious_activity" -> LockedConv(c)
      [] decision = "success" -> TrackedConv(c, p_ip_address, p_user_agent)
      [] decision = "token_expired" -> TrackedConv(c, p_ip_address, p_user_agent)
      [] OTHER -> conv

\* The conversation table after the branch taken: only the suspicious branch
\* and the success branch hold an UPDATE.
ConvAfter(decision, c, p_ip_address, p_user_agent) ==
    CASE decision = "suspicious_activity" -> LockedConv(c)
      [] decision = "success" -> TrackedConv(c, p_ip_address, p_user_agent)
      [] OTHER -> conv

LogAfterSkipExpired(decision, row) ==
    IF decision = "token_expired" THEN log ELSE Append(log, row)

LogAfterTrims(decision, row) ==
    IF decision = "conversation_locked" THEN Append(Tail(log), row) ELSE Append(log, row)

\* The log after the INSERT of the branch taken.
LogAfter(decision, row) == Append(log, row)

validate_magic_link_access(p_talent_token, p_ip_address, p_user_agent, p_fingerprint_data) ==
    LET d == Decision(p_talent_token, p_ip_address, p_user_agent)
        row == LogRow(p_talent_token, p_ip_address, p_user_agent,
                      LoggedResult(d), p_fingerprint_data)
    IN
    /\ IF InsertRaises(p_talent_token)
       THEN \* the exception rolls the whole call back
            /\ ret' = Raised("validate", "foreign_key_violation")
            /\ UNCHANGED <<conv, log>>
       ELSE LET c == ConvOfToken(p_talent_token) IN
            /\ log' = LogAfter(d, row)
            /\ conv' = ConvAfter(d, c, p_ip_address, p_user_agent)
            /\ ret' = IF d = "success"
                      THEN Returned("validate", NULL, TRUE, NULL,
                                    Some(conv[c].access_count + 1))
                      ELSE Returned("validate", NULL, FALSE, d, NULL)
    /\ UNCHANGED <<now, issued, calls, peak, started>>

\* ------------------------------------------------------- unlock_conversation
\* p_admin_reason: the default of the function, or a text of the admin.
AdminReasons == {"Manual unlock by admin", "cleared by support"}

UnlockedConvKeepsReason(p_conversation_id) ==
    [conv EXCEPT ![p_conversation_id].is_locked = FALSE]

UnlockedConvResetsCount(p_conversation_id) ==
    [conv EXCEPT ![p_conversation_id].is_locked = FALSE,
                 ![p_conversation_id].lock_reason = NULL,
                 ![p_conversation_id].access_count = 0]

UnlockedConv(p_conversation_id) ==
    [conv EXCEPT ![p_conversation_id].is_locked = FALSE,
                 ![p_conversation_id].lock_reason = NULL]

unlock_conversation_if_locked(p_conversation_id, p_admin_reason) ==
    /\ IF p_conversation_id \in ConvIds
       THEN /\ conv' = UnlockedConv(p_conversation_id)
            /\ ret' = Returned("unlock", Some(p_conversation_id),
                               conv[p_conversation_id].is_locked, NULL, NULL)
       ELSE /\ conv' = conv
            /\ ret' = Returned("unlock", Some(p_conversation_id), FALSE, NULL, NULL)
    /\ UNCHANGED <<log, now, issued, calls, peak, started>>

unlock_conversation(p_conversation_id, p_admin_reason) ==
    /\ IF p_conversation_id \in ConvIds
       THEN /\ conv' = UnlockedConv(p_conversation_id)
            /\ ret' = Returned("unlock", Some(p_conversation_id), TRUE, NULL, NULL)
       ELSE /\ conv' = conv
            /\ ret' = Returned("unlock", Some(p_conversation_id), FALSE, NULL, NULL)
    /\ UNCHANGED <<log, now, issued, calls, peak, started>>

\* ------------------------------------------------- resend magic link handler
NeedsRotation(c) ==
    \/ conv[c].token_expires_at <= now
    \/ conv[c].token_expires_at - now < resend_margin_minutes

RotatedConv(c, talentToken) ==
    [conv EXCEPT ![c].talent_token = talentToken,
                 ![c].token_expires_at = now + token_lifetime_days * MinutesPerDay]

resend_magic_link(conversationId) ==
    /\ IF conversationId \notin ConvIds \/ conv[conversationId].status # "active"
       THEN /\ ret' = Returned("resend", Some(conversationId), FALSE,
                               "Conversation not found", NULL)
            /\ UNCHANGED <<conv, issued>>
       ELSE IF ~NeedsRotation(conversationId)
       THEN /\ ret' = Returned("resend", Some(conversationId), TRUE, NULL, NULL)
            /\ UNCHANGED <<conv, issued>>
       ELSE \E talentToken \in Tokens \ issued :
            /\ issued' = issued \cup {talentToken}
            /\ IF FkHolds(RotatedConv(conversationId, talentToken), log)
               THEN /\ conv' = RotatedConv(conversationId, talentToken)
                    /\ ret' = Returned("resend", Some(conversationId), TRUE, NULL, NULL)
               ELSE /\ conv' = conv
                    /\ ret' = Returned("resend", Some(conversationId), FALSE,
                                       "Failed to update token", NULL)
    /\ UNCHANGED <<log, now, calls, peak, started>>

\* ----------------------------------------------------- send message handler
MessagedConv(conversationId) ==
    [conv EXCEPT ![conversationId].last_message_at = Some(now)]

send_message(conversationId) ==
    /\ conversationId \in ConvIds
    /\ conv' = MessagedConv(conversationId)
    /\ ret' = Returned("send", Some(conversationId), TRUE, NULL, NULL)
    /\ UNCHANGED <<log, now, issued, calls, peak, started>>

\* ------------------------------------------------------------ passage of time
\* The clock of the bounded runs stops at these instants: the ends of the
\* five-minute and of the one-hour window of an attempt made at minute 0.
Instants == {0, 5, 60}

Tick(t) ==
    /\ t > now
    /\ now' = t
    /\ ret' = Returned("tick", NULL, TRUE, NULL, NULL)
    /\ UNCHANGED <<conv, log, issued, calls, peak, started>>

Step(requests, ids, instants, maxlog) ==
    \/ /\ Len(log) < maxlog
       /\ \E rq \in requests, fp \in Fingerprints :
              validate_magic_link_access(rq.talent_token, rq.ip_address,
                                         rq.user_agent, fp)
    \/ \E id \in ids, reason \in AdminReasons : unlock_conversation(id, reason)
    \/ \E id \in ids : resend_magic_link(id)
    \/ \E t \in instants : Tick(t)

Next == Step(Requests, ConvIds \cup {UnknownId}, Instants, MaxLog)

Spec == Init /\ [][Next]_vars

NextRate == Step(RateRequests, {"c1"}, Instants, MaxLogRate)

SpecRate == Init /\ [][NextRate]_vars

NextChat ==
    \/ Step(ChatRequests, ConvIds \cup {UnknownId}, Instants, MaxLogChat)
    \/ \E id \in ConvIds : send_message(id)

SpecChat == Init /\ [][NextChat]_vars

\* ------------------------------------------------------- the daily limit runs
\* One caller on the token of c1 (and on a token nobody holds), over three
\* hours and up to the expiry of c1's token.
DailyRequests ==
    { Request("T1", "ip1", Some(UA_Mozilla)), Request("T3", "ip1", Some(UA_Mozilla)) }

DailyInstants ==
    {0, MinutesPerHour, 2 * MinutesPerHour, token_lifetime_days * MinutesPerDay}

NextDaily == Step(DailyRequests, {"c1"}, DailyInstants, MaxLogDaily)

SpecDaily == Init /\ [][NextDaily]_vars

\* ------------------------------------------- a conversation that is not active
\* c1 has been closed or archived (conversation_status); nothing else differs
\* from Init.
InitClosed ==
    /\ \E s \in {"closed", "archived"} :
          conv = [c \in ConvIds |->
                    IF c = "c1"
                    THEN [NewConversation("T1", token_lifetime_days * MinutesPerDay)
                            EXCEPT !.status = s]
                    ELSE NewConversation("T2", c2_expires_at)]
    /\ log = <<>>
    /\ now = 0
    /\ issued = {"T1", "T2"}
    /\ ret = Returned("init", NULL, TRUE, NULL, NULL)
    /\ Quiet

NextClosed == Step(ChatRequests, ConvIds, Instants, MaxLogChat)

SpecClosed == InitClosed /\ [][NextClosed]_vars

\* ------------------------------------------------------------ storage failure
\* A statement of the function fails in the storage layer: the SELECT of the
\* conversation, or the INSERT of the log row after the UPDATE of its branch.
\* The function has no exception handler, so the call's transaction aborts.
StorageFaults == {"select", "insert"}

RollbackKeepsWrites(before, after) == after

Rollback(before, after) == before

validate_magic_link_access_aborted(p_talent_token, p_ip_address, p_user_agent, failing) ==
    LET d == Decision(p_talent_token, p_ip_address, p_user_agent)
        written == IF failing = "select" \/ ~Found(p_talent_token)
                   THEN conv
                   ELSE ConvAfter(d, ConvOfToken(p_talent_token),
                                  p_ip_address, p_user_agent)
    IN
    /\ conv' = Rollback(conv, written)
    /\ log' = Rollback(log, log)
    /\ ret' = Aborted("validate", IF failing = "select" THEN "select" ELSE LoggedResult(d))
    /\ UNCHANGED <<now, issued, calls, peak, started>>

\* What the validate-magic-link handler answers for the result of the rpc.
HandlerResponse(r) ==
    IF r.raised
    THEN [status |-> 500, success |-> FALSE, error |-> "validation_failed"]
    ELSE IF r.success
    THEN [status |-> 200, success |-> TRUE, error |-> "none"]
    ELSE [status |-> IF r.error = "rate_limited" THEN 429
                     ELSE IF r.error = "token_expired" THEN 410
                     ELSE IF r.error = "suspicious_activity" THEN 403
                     ELSE 400,
          success |-> FALSE,
          error |-> r.error]

NextFault ==
    \/ Step(Requests, {"c1"}, Instants, MaxLogChat)
    \/ \E rq \in Requests, failing \in StorageFaults :
           validate_magic_link_access_aborted(rq.talent_token, rq.ip_address,
                                              rq.user_agent, failing)

SpecFault == Init /\ [][NextFault]_vars

\* ------------------------------------------------ detectBot of the HTTP handler
botPatterns ==
    { <<"b", "o", "t">>,
      <<"c", "r", "a", "w", "l", "e", "r">>,
      <<"s", "p", "i", "d", "e", "r">>,
      <<"s", "c", "r", "a", "p", "e", "r">>,
      <<"c", "u", "r", "l">>,
      <<"w", "g", "e", "t">>,
      <<"p", "y", "t", "h", "o", "n">>,
      <<"g", "o", "-", "h", "t", "t", "p">>,
      <<"o", "k", "h", "t", "t", "p">>,
      <<"j", "a", "v", "a">>,
      <<"n", "o", "d", "e">>,
      <<"p", "h", "a", "n", "t", "o", "m">>,
      <<"h", "e", "a", "d", "l", "e", "s", "s">>,
      <<"s", "e", "l", "e", "n", "i", "u", "m">>,
      <<"p", "u", "p", "p", "e", "t", "e", "e", "r">>,
      <<"p", "l", "a", "y", "w", "r", "i", "g", "h", "t">> }

detectBot(userAgent) ==
    \E pattern \in botPatterns : Contains(LowerSeq(userAgent), pattern)

\* Calls on the token of c1 and of c2 with the user agents of clients and tools.
AgentRequests ==
    { Request(t, "ip1", ua) : t \in {"T1", "T2"}, ua \in AgentUserAgents }

NextAgents == Step(AgentRequests, {"c1"}, Instants, MaxLogAgents)

SpecAgents == Init /\ [][NextAgents]_vars

\* ------------------------------------------------ validate calls in flight
\* Each statement of the function reads the rows committed when it starts
\* (READ COMMITTED); the writes of a call become visible together when the
\* call returns.  NOW() is the time at which the call started.
Max(a, b) == IF a >= b THEN a ELSE b

InFlight == { p \in Procs : calls[p].pc # "idle" }

CountSinceAt(p_ip_address, window, at) ==
    Cardinality({ i \in 1..Len(log) :
        /\ log[i].ip_address = p_ip_address
        /\ log[i].created_at > at - window })

CountForTokenIpSinceAt(p_talent_token, p_ip_address, window, at) ==
    Cardinality({ i \in 1..Len(log) :
        /\ log[i].talent_token = p_talent_token
        /\ log[i].ip_address = p_ip_address
        /\ log[i].created_at > at - window })

RowAt(rq, result, at) ==
    [ talent_token |-> rq.talent_token,
      ip_address |-> rq.ip_address,
      user_agent |-> rq.user_agent,
      access_result |-> result,
      fingerprint_data |-> NULL,
      created_at |-> at ]

Running == Returned("running", NULL, TRUE, NULL, NULL)

\* The call of p inserts its row and returns.
Finish(p, row, retval) ==
    /\ log' = Append(log, row)
    /\ ret' = retval
    /\ calls' = [calls EXCEPT ![p] = IdleCall]

\* The call of p goes on to its next statement.
Proceed(p, next) ==
    /\ calls' = [calls EXCEPT ![p] = next]
    /\ ret' = Running
    /\ log' = log

CommitTrackedFromRecord(record, c, p_ip_address, p_user_agent) ==
    [TrackedConv(c, p_ip_address, p_user_agent)
        EXCEPT ![c].access_count = record.access_count + 1]

\* UPDATE ... SET access_count = access_count + 1: evaluated on the row as it
\* is when the statement runs, not on conversation_record.
CommitTracked(record, c, p_ip_address, p_user_agent) ==
    TrackedConv(c, p_ip_address, p_user_agent)

\* SELECT ... INTO conversation_record, with the checks made on the record.
call_select(p, rq) ==
    /\ calls[p].pc = "idle"
    /\ peak' = Max(peak, Cardinality(InFlight) + 1)
    /\ IF InsertRaises(rq.talent_token)
       THEN /\ ret' = Raised("validate", "foreign_key_violation")
            /\ UNCHANGED <<log, calls>>
       ELSE LET record == conv[ConvOfToken(rq.talent_token)] IN
            IF record.is_locked
            THEN Finish(p, RowAt(rq, "blocked", now),
                        Returned("validate", NULL, FALSE, "conversation_locked", NULL))
            ELSE IF record.token_expires_at <= now
            THEN Finish(p, RowAt(rq, "expired", now),
                        Returned("validate", NULL, FALSE, "token_expired", NULL))
            ELSE Proceed(p, [ pc |-> "hourly", rq |-> Some(rq), started_at |-> now,
                              record |-> Some(record), is_suspicious |-> FALSE ])
    /\ UNCHANGED <<conv, now, issued, started>>

call_hourly_above(p) ==
    /\ calls[p].pc = "hourly"
    /\ LET rq == calls[p].rq[1]
           at == calls[p].started_at
       IN IF CountSinceAt(rq.ip_address, rate_limit_window_hours * MinutesPerHour, at)
                 > max_hourly_attempts
          THEN Finish(p, RowAt(rq, "rate_limited", at),
                      Returned("validate", NULL, FALSE, "rate_limited", NULL))
          ELSE Proceed(p, [calls[p] EXCEPT !.pc = "daily"])
    /\ UNCHANGED <<conv, now, issued, peak, started>>

\* SELECT COUNT(*) of the last hour.
call_hourly(p) ==
    /\ calls[p].pc = "hourly"
    /\ LET rq == calls[p].rq[1]
           at == calls[p].started_at
       IN IF CountSinceAt(rq.ip_address, rate_limit_window_hours * MinutesPerHour, at)
                 >= max_hourly_attempts
          THEN Finish(p, RowAt(rq, "rate_limited", at),
                      Returned("validate", NULL, FALSE, "rate_limited", NULL))
          ELSE Proceed(p, [calls[p] EXCEPT !.pc = "daily"])
    /\ UNCHANGED <<conv, now, issued, peak, started>>

\* SELECT COUNT(*) of the last day.
call_daily(p) ==
    /\ calls[p].pc = "daily"
    /\ LET rq == calls[p].rq[1]
           at == calls[p].started_at
       IN IF CountSinceAt(rq.ip_address, rate_limit_window_days * MinutesPerDay, at)
                 >= max_daily_attempts
          THEN Finish(p, RowAt(rq, "rate_limited", at),
                      Returned("validate", NULL, FALSE, "daily_limit_exceeded", NULL))
          ELSE Proceed(p, [calls[p] EXCEPT !.pc = "rapid"])
    /\ UNCHANGED <<conv, now, issued, peak, started>>

\* SELECT COUNT(*) of the last five minutes on the pair, and the user agent.
call_rapid(p) ==
    /\ calls[p].pc = "rapid"
    /\ LET rq == calls[p].rq[1]
           at == calls[p].started_at
       IN Proceed(p, [calls[p] EXCEPT
              !.pc = "write",
              !.is_suspicious =
                  \/ CountForTokenIpSinceAt(rq.talent_token, rq.ip_address,
                                            rapid_window_minutes, at)
                         >= rapid_max_attempts
                  \/ UaMatchesBot(rq.user_agent)])
    /\ UNCHANGED <<conv, now, issued, peak, started>>

\* The UPDATE and the INSERT of the branch taken, and the RETURN.
call_write(p) ==
    /\ calls[p].pc = "write"
    /\ LET rq == calls[p].rq[1]
           at == calls[p].started_at
           record == calls[p].record[1]
       IN IF InsertRaises(rq.talent_token)
          THEN /\ ret' = Raised("validate", "foreign_key_violation")
               /\ calls' = [calls EXCEPT ![p] = IdleCall]
               /\ UNCHANGED <<conv, log>>
          ELSE LET c == ConvOfToken(rq.talent_token) IN
               IF calls[p].is_suspicious
               THEN /\ conv' = LockedConv(c)
                    /\ Finish(p, RowAt(rq, "blocked", at),
                              Returned("validate", NULL, FALSE, "suspicious_activity", NULL))
               ELSE /\ conv' = CommitTracked(record, c, rq.ip_address, rq.user_agent)
                    /\ Finish(p, RowAt(rq, "success", at),
                              Returned("validate", NULL, TRUE, NULL,
                                       Some(record.access_count + 1)))
    /\ UNCHANGED <<now, issued, peak, started>>

StepRace(requests, maxlog) ==
    \E p \in Procs :
        \/ /\ Len(log) < maxlog
           /\ \E rq \in requests : call_select(p, rq)
        \/ call_hourly(p)
        \/ call_daily(p)
        \/ call_rapid(p)
        \/ call_write(p)

RaceRequests ==
    { Request("T1", "ip1", Some(UA_Mozilla)), Request("T1", "ip2", Some(UA_Curl)),
      Request("T3", "ip1", Some(UA_Mozilla)) }

NextRace == StepRace(RaceRequests, MaxLogRace)

SpecRace == Init /\ [][NextRace]_vars

\* Two callers behind one address, on the tokens of c1 and c2, up to the
\* hourly limit and past it.
RaceRateRequests ==
    { Request("T1", "ip1", Some(UA_Mozilla)), Request("T2", "ip1", Some(UA_Mozilla)) }

RaceInstants == {0, MinutesPerHour}

NextRaceRate ==
    \/ StepRace(RaceRateRequests, MaxLogRaceRate)
    \/ \E t \in RaceInstants : Tick(t)

SpecRaceRate == Init /\ [][NextRaceRate]_vars

\* ------------------------------------------- the endpoints that take a token
\* .eq('talent_token', ...).eq('status', 'active').single()
ActiveByToken(talentToken) ==
    { c \in ConvIds : conv[c].talent_token = talentToken /\ conv[c].status = "active" }

\* GET get-conversation?talentToken=...
get_conversation(talentToken) ==
    /\ LET rows == ActiveByToken(talentToken) IN
       IF Cardinality(rows) # 1
       THEN ret' = Returned("get_conversation", NULL, FALSE, "Conversation not found", NULL)
       ELSE LET conversation == CHOOSE c \in rows : TRUE IN
            IF conv[conversation].token_expires_at < now
            THEN ret' = Returned("get_conversation", Some(conversation), FALSE,
                                 "Token has expired", NULL)
            ELSE ret' = Returned("get_conversation", Some(conversation), TRUE, NULL, NULL)
    /\ UNCHANGED <<conv, log, now, issued, calls, peak, started>>

\* POST send-message with talentToken and no conversationId
send_message_by_token(talentToken) ==
    /\ LET rows == ActiveByToken(talentToken) IN
       IF Cardinality(rows) # 1
       THEN /\ ret' = Returned("send_by_token", NULL, FALSE, "Invalid or expired token", NULL)
            /\ conv' = conv
       ELSE LET conversation == CHOOSE c \in rows : TRUE IN
            IF conv[conversation].token_expires_at < now
            THEN /\ ret' = Returned("send_by_token", Some(conversation), FALSE,
                                    "Token has expired", NULL)
                 /\ conv' = conv
            ELSE /\ ret' = Returned("send_by_token", Some(conversation), TRUE, NULL, NULL)
                 /\ conv' = MessagedConv(conversation)
    /\ UNCHANGED <<log, now, issued, calls, peak, started>>

NextToken ==
    \/ Step(ChatRequests, ConvIds, Instants, MaxLogToken)
    \/ \E talentToken \in Tokens : get_conversation(talentToken)
    \/ \E talentToken \in Tokens : send_message_by_token(talentToken)

SpecToken == Init /\ [][NextToken]_vars

\* ------------------------------------------- the validate-magic-link handler
NoHeader == NULL
Referers == {NoHeader, Some("https://portal/talent/chat")}
HeaderAgents == {NoHeader, Some(UA_Mozilla), Some(UA_Curl), Some(UA_Headless)}
BodyTokens == {NULL, Some("T1"), Some("T2"), Some("T3")}

\* req.headers['user-agent'] || ''
HeaderOrEmpty(header) == IF header = NoHeader THEN <<>> ELSE header[1]

validateRequestTimingAlways(referer, userAgentHeader) == TRUE

validateRequestTiming(referer, userAgentHeader) ==
    IF referer = NoHeader /\ detectBot(HeaderOrEmpty(userAgentHeader))
    THEN FALSE
    ELSE TRUE

\* The handler answered by itself, without calling the function.
Answered(status, error) ==
    [ op |-> "handler", id |-> Some(status), raised |-> FALSE, success |-> FALSE,
      error |-> error, access_count |-> NULL ]

validate_magic_link_handler(token, ipAddress, userAgentHeader, referer) ==
    IF token = NULL
    THEN /\ ret' = Answered(400, "missing_token")
         /\ UNCHANGED <<conv, log, now, issued, calls, peak, started>>
    ELSE IF ~validateRequestTiming(referer, userAgentHeader)
    THEN /\ ret' = Answered(403, "invalid_request")
         /\ UNCHANGED <<conv, log, now, issued, calls, peak, started>>
    ELSE validate_magic_link_access(token[1], ipAddress,
                                    Some(HeaderOrEmpty(userAgentHeader)), NULL)

NextHandler ==
    \/ /\ Len(log) < MaxLogHandler
       /\ \E token \in BodyTokens, userAgentHeader \in HeaderAgents, referer \in Referers :
              validate_magic_link_handler(token, "ip1", userAgentHeader, referer)
    \/ \E reason \in AdminReasons : unlock_conversation("c1", reason)
    \/ \E t \in Instants : Tick(t)

SpecHandler == Init /\ [][NextHandler]_vars

\* -------------------------------------------------- start-conversation handler
\* The (candidate_id, admin_user_id) of the rows of conv, and the pairs asked
\* for.  Conversations created in the run are the rows of started.
ConvPair(c) == IF c = "c1" THEN <<"cand1", "admin1">> ELSE <<"cand2", "admin1">>

StartPairs == { <<"cand1", "admin1">>, <<"cand3", "admin1">>, <<"cand3", "admin2">> }

StartTokens == {"S1", "S2", "S3", "S4"}

\* .eq('candidate_id', ...).eq('admin_user_id', ...).eq('status', 'active')
ActiveTokensOfPair(pair) ==
    [ fixed |-> { c \in ConvIds : ConvPair(c) = pair /\ conv[c].status = "active" },
      created |-> { i \in DOMAIN started :
                      started[i].pair = pair /\ started[i].status = "active" } ]

\* .single(): the row when exactly one matches, else no data.
existingConversation(pair) ==
    LET rows == ActiveTokensOfPair(pair) IN
    IF Cardinality(rows.fixed) + Cardinality(rows.created) # 1 THEN NULL
    ELSE IF rows.fixed # {}
         THEN Some(conv[CHOOSE c \in rows.fixed : TRUE].talent_token)
         ELSE Some(started[CHOOSE i \in rows.created : TRUE].talent_token)

StartedRow(pair, talentToken) ==
    [ pair |-> pair, status |-> "active", talent_token |-> talentToken,
      token_expires_at |-> now + token_lifetime_days * MinutesPerDay ]

\* The select of the existing conversation, and the answer when there is one.
start_select(p, pair) ==
    /\ calls[p].pc = "idle"
    /\ IF existingConversation(pair) # NULL
       THEN /\ ret' = Returned("start", existingConversation(pair), TRUE, NULL, NULL)
            /\ calls' = calls
       ELSE /\ ret' = Running
            /\ calls' = [calls EXCEPT ![p] =
                           [ pc |-> "insert", rq |-> Some(pair), started_at |-> now,
                             record |-> NULL, is_suspicious |-> FALSE ]]
    /\ UNCHANGED <<conv, log, now, issued, peak, started>>

\* The insert of the new conversation with a fresh token.
start_insert(p) ==
    /\ calls[p].pc = "insert"
    /\ \E talentToken \in StartTokens \ issued :
          /\ started' = Append(started, StartedRow(calls[p].rq[1], talentToken))
          /\ issued' = issued \cup {talentToken}
          /\ ret' = Returned("start", Some(talentToken), TRUE, NULL, NULL)
    /\ calls' = [calls EXCEPT ![p] = IdleCall]
    /\ UNCHANGED <<conv, log, now, peak>>

NextStart ==
    \E p \in Procs :
        \/ /\ Len(started) < MaxStarted
           /\ \E pair \in StartPairs : start_select(p, pair)
        \/ start_insert(p)

SpecStart == Init /\ [][NextStart]_vars

\* ---------------------------------------------------------------- properties
\* What the properties read off a state, written from the table contents alone.
Call(rq) ==
    \E fp \in Fingerprints :
        validate_magic_link_access(rq.talent_token, rq.ip_address, rq.user_agent, fp)

Holders(t) == { c \in ConvIds : conv[c].talent_token = t }
Known(t) == Holders(t) # {}
Holder(t) == CHOOSE c \in ConvIds : conv[c].talent_token = t

AttemptsWithin(ip, minutes) ==
    Cardinality({ i \in DOMAIN log :
        log[i].ip_address = ip /\ now - log[i].created_at < minutes })

PairAttemptsWithin(t, ip, minutes) ==
    Cardinality({ i \in DOMAIN log :
        /\ log[i].talent_token = t
        /\ log[i].ip_address = ip
        /\ now - log[i].created_at < minutes })

KnownBots == { Some(UA_Curl), Some(UA_Python) }

RowOf(rq, result) ==
    [ talent_token |-> rq.talent_token, ip_address |-> rq.ip_address,
      user_agent |-> rq.user_agent, access_result |-> result,
      fingerprint_data |-> NULL, created_at |-> now ]

LastRow == log[Len(log)]

Outcome(r) == IF r.raised THEN "raised" ELSE IF r.success THEN "success" ELSE r.error

Open(t) ==
    /\ Known(t)
    /\ ~conv[Holder(t)].is_locked
    /\ conv[Holder(t)].token_expires_at > now

UnderLimits(ip) ==
    /\ AttemptsWithin(ip, 60) < 5
    /\ AttemptsWithin(ip, 1440) < 10

\* C1: every validate call that returns a result has appended exactly one row
\* to the log, stamped with the time of the call, and left the older rows alone.
C1_OneRowPerReturn ==
    [][ (ret'.op = "validate" /\ ~ret'.raised) =>
            /\ Len(log') = Len(log) + 1
            /\ SubSeq(log', 1, Len(log)) = log
            /\ log'[Len(log')].created_at = now ]_vars

C1_Witness ==
    /\ ret.op = "validate"
    /\ Outcome(ret) = "rate_limited"
    /\ Len(log) = 6
    /\ LastRow.access_result = "rate_limited"

\* C2: the outcome of a validate call is that of the first failing check in the
\* order existence, lock, expiry, hourly limit, daily limit, suspicion, and
\* success when none fails.
FirstFailingCheck(rq) ==
    IF ~Known(rq.talent_token) THEN "invalid_token"
    ELSE IF conv[Holder(rq.talent_token)].is_locked THEN "conversation_locked"
    ELSE IF conv[Holder(rq.talent_token)].token_expires_at <= now THEN "token_expired"
    ELSE IF AttemptsWithin(rq.ip_address, 60) >= 5 THEN "rate_limited"
    ELSE IF AttemptsWithin(rq.ip_address, 1440) >= 10 THEN "daily_limit_exceeded"
    ELSE IF \/ PairAttemptsWithin(rq.talent_token, rq.ip_address, 5) >= 3
            \/ rq.user_agent \in KnownBots
         THEN "suspicious_activity"
    ELSE "success"

C2_FirstFailingCheck ==
    [][ ret'.op = "validate" =>
            \A rq \in AllRequests :
                Call(rq) => Outcome(ret') = FirstFailingCheck(rq) ]_vars

\* C3: a validate call on the token of a locked conversation returns
\* conversation_locked and logs a blocked row, whatever the token's expiry and
\* the caller's attempt counts.
C3_LockedStaysShut ==
    [][ ret'.op = "validate" =>
            \A rq \in AllRequests :
                ( /\ Known(rq.talent_token)
                  /\ conv[Holder(rq.talent_token)].is_locked
                  /\ Call(rq) )
                => /\ Outcome(ret') = "conversation_locked"
                   /\ log' = Append(log, RowOf(rq, "blocked")) ]_vars

C3_Witness ==
    /\ ret.op = "validate"
    /\ Outcome(ret) = "conversation_locked"
    /\ LastRow.access_result = "blocked"
    /\ conv[Holder(LastRow.talent_token)].is_locked
    /\ conv[Holder(LastRow.talent_token)].token_expires_at <= now
    /\ AttemptsWithin(LastRow.ip_address, 60) >= 6

\* C4: a validate call on a token that no conversation holds returns
\* invalid_token and appends exactly one row, with result invalid, carrying
\* that token and the caller's address.
C4_InvalidTokenLogged ==
    [][ ret'.op = "validate" =>
            \A rq \in AllRequests :
                (~Known(rq.talent_token) /\ Call(rq))
                => /\ Outcome(ret') = "invalid_token"
                   /\ log' = Append(log, RowOf(rq, "invalid")) ]_vars

\* C5 as stated: an attempt that is at least the third one against the same
\* (token, address) pair within five minutes locks the conversation and returns
\* suspicious_activity.
C5_ThirdAttemptLocks ==
    [][ ret'.op = "validate" =>
            \A rq \in AllRequests :
                ( /\ PairAttemptsWithin(rq.talent_token, rq.ip_address, 5) >= 2
                  /\ Call(rq) )
                => /\ Outcome(ret') = "suspicious_activity"
                   /\ conv'[Holder(rq.talent_token)].is_locked ]_vars

\* C5 amended: an attempt made when three attempts against the same (token,
\* address) pair are already logged within five minutes, on an unlocked and
\* unexpired token from an address under its limits, locks the conversation,
\* returns suspicious_activity and logs a blocked row.
C5_FourthAttemptLocks ==
    [][ ret'.op = "validate" =>
            \A rq \in AllRequests :
                ( /\ Open(rq.talent_token)
                  /\ UnderLimits(rq.ip_address)
                  /\ PairAttemptsWithin(rq.talent_token, rq.ip_address, 5) >= 3
                  /\ Call(rq) )
                => /\ Outcome(ret') = "suspicious_activity"
                   /\ conv'[Holder(rq.talent_token)].is_locked
                   /\ conv'[Holder(rq.talent_token)].lock_reason = Some(SuspiciousReason)
                   /\ log' = Append(log, RowOf(rq, "blocked")) ]_vars

C5_Witness ==
    /\ ret.op = "validate"
    /\ Outcome(ret) = "suspicious_activity"
    /\ LastRow.user_agent \notin KnownBots
    /\ PairAttemptsWithin(LastRow.talent_token, LastRow.ip_address, 5) = 4
    /\ conv[Holder(LastRow.talent_token)].is_locked

\* C6 as stated: with five attempts of one address logged within the trailing
\* hour, a validate call from that address that returns a result returns
\* rate_limited, whichever token it targets.
C6_RateLimitedAnyToken ==
    [][ ret'.op = "validate" =>
            \A rq \in AllRequests :
                ( /\ AttemptsWithin(rq.ip_address, 60) >= 5
                  /\ Call(rq)
                  /\ ~ret'.raised )
                => Outcome(ret') = "rate_limited" ]_vars

\* C6 amended: with five attempts (of any result) of one address logged within
\* the trailing hour, a validate call from that address on the token of any
\* unlocked, unexpired conversation returns rate_limited and logs a
\* rate_limited row.
C6_RateLimitedOpenToken ==
    [][ ret'.op = "validate" =>
            \A rq \in AllRequests :
                ( /\ Open(rq.talent_token)
                  /\ AttemptsWithin(rq.ip_address, 60) >= 5
                  /\ Call(rq) )
                => /\ Outcome(ret') = "rate_limited"
                   /\ log' = Append(log, RowOf(rq, "rate_limited")) ]_vars

C6_Witness ==
    /\ ret.op = "validate"
    /\ Outcome(ret) = "rate_limited"
    /\ AttemptsWithin(LastRow.ip_address, 60) >= 6
    /\ \E i \in DOMAIN log :
          /\ log[i].ip_address = LastRow.ip_address
          /\ log[i].talent_token # LastRow.talent_token
          /\ log[i].access_result # "success"

\* C7: a validate call with a bot user agent on an unlocked, unexpired token,
\* from an address with no row in the log, locks the conversation with the
\* reason 'Suspicious access pattern detected', returns suspicious_activity,
\* appends exactly one blocked row and leaves access_count unchanged.
C7_BotLocksAtOnce ==
    [][ ret'.op = "validate" =>
            \A rq \in AllRequests :
                ( /\ rq.user_agent \in KnownBots
                  /\ Open(rq.talent_token)
                  /\ \A i \in DOMAIN log : log[i].ip_address # rq.ip_address
                  /\ Call(rq) )
                => /\ Outcome(ret') = "suspicious_activity"
                   /\ conv'[Holder(rq.talent_token)].is_locked
                   /\ conv'[Holder(rq.talent_token)].lock_reason = Some(SuspiciousReason)
                   /\ conv'[Holder(rq.talent_token)].access_count
                          = conv[Holder(rq.talent_token)].access_count
                   /\ log' = Append(log, RowOf(rq, "blocked")) ]_vars

C7_Witness ==
    /\ ret.op = "validate"
    /\ Outcome(ret) = "suspicious_activity"
    /\ LastRow.user_agent \in KnownBots
    /\ AttemptsWithin(LastRow.ip_address, 1440) = 1
    /\ conv[Holder(LastRow.talent_token)].lock_reason = Some(SuspiciousReason)

\* The conversation has been locked: a blocked row names its token.
WasLocked(c) ==
    \E i \in DOMAIN log :
        log[i].talent_token = conv[c].talent_token /\ log[i].access_result = "blocked"

C9_OnlyUnlockUnlocks ==
    [][ \A c \in ConvIds :
            (conv[c].is_locked /\ ~conv'[c].is_locked)
            => (ret'.op = "unlock" /\ ret'.id = Some(c)) ]_vars

C9_Witness ==
    /\ ret.op \in {"resend", "send"}
    /\ ret.id \in { Some(c) : c \in ConvIds }
    /\ conv[ret.id[1]].is_locked
    /\ now > 0

\* C10: a validate call that returns success raises the conversation's
\* access_count by one, sets last_accessed_at to the time of the call,
\* last_accessed_ip and user_agent to the caller's, and appends one success row.
C10_SuccessTracksAccess ==
    [][ (ret'.op = "validate" /\ ret'.success) =>
            \A rq \in AllRequests :
                Call(rq) =>
                    LET c == Holder(rq.talent_token) IN
                    /\ conv'[c].access_count = conv[c].access_count + 1
                    /\ conv'[c].last_accessed_at = Some(now)
                    /\ conv'[c].last_accessed_ip = Some(rq.ip_address)
                    /\ conv'[c].user_agent = rq.user_agent
                    /\ log' = Append(log, RowOf(rq, "success")) ]_vars

C10_Witness ==
    /\ ret.op = "validate"
    /\ Outcome(ret) = "success"
    /\ conv[Holder(LastRow.talent_token)].access_count = 2
    /\ conv[Holder(LastRow.talent_token)].last_accessed_at = Some(now)
    /\ conv[Holder(LastRow.talent_token)].user_agent = NULL

\* ------------------------------------------------------------- C11 .. C20
\* C11: a validate call whose first failing check is one of existence, lock,
\* expiry, hourly limit, daily limit leaves every conversation record as it
\* was (lock, counters, last access, token, expiry, status); the log alone may
\* have grown.
C11_ChecksLeaveConversations ==
    [][ ret'.op = "validate" =>
            \A rq \in AllRequests :
                ( /\ FirstFailingCheck(rq) \in
                        { "invalid_token", "conversation_locked", "token_expired",
                          "rate_limited", "daily_limit_exceeded" }
                  /\ Call(rq) )
                => /\ conv' = conv
                   /\ issued' = issued
                   /\ Len(log') >= Len(log) ]_vars

C11_Witness ==
    /\ ret.op = "validate"
    /\ Outcome(ret) = "rate_limited"
    /\ now = 60
    /\ ~conv["c1"].is_locked
    /\ conv["c1"].access_count = 3
    /\ \E i \in DOMAIN log : log[i].access_result = "blocked"

C13_DailyLimit ==
    [][ ret'.op = "validate" =>
            \A rq \in AllRequests :
                ( /\ Open(rq.talent_token)
                  /\ AttemptsWithin(rq.ip_address, 60) < 5
                  /\ AttemptsWithin(rq.ip_address, 1440) >= 10
                  /\ Call(rq) )
                => /\ Outcome(ret') = "daily_limit_exceeded"
                   /\ log' = Append(log, RowOf(rq, "rate_limited"))
                   /\ ~conv'[Holder(rq.talent_token)].is_locked
                   /\ conv'[Holder(rq.talent_token)].access_count
                          = conv[Holder(rq.talent_token)].access_count ]_vars

C13_Witness ==
    /\ ret.op = "validate"
    /\ Outcome(ret) = "daily_limit_exceeded"
    /\ LastRow.access_result = "rate_limited"
    /\ AttemptsWithin(LastRow.ip_address, 1440) = 11
    /\ AttemptsWithin(LastRow.ip_address, 60) <= 5
    /\ ~conv[Holder(LastRow.talent_token)].is_locked

\* C14: a validate call in which the read of the conversation or the insert of
\* the log row fails is answered with the generic error of status 500, never
\* with success, and leaves the conversations and the log as they were before
\* the call: no access_count increment and no lock of that call survives.
C14_FailureRollsBack ==
    [][ (ret'.op = "validate" /\ ret'.raised) =>
            /\ conv' = conv
            /\ log' = log
            /\ HandlerResponse(ret').status = 500
            /\ HandlerResponse(ret').error = "validation_failed"
            /\ ~HandlerResponse(ret').success ]_vars

\* The insert of the blocked row of a suspicious call failed: the lock that
\* preceded it is gone.
C14_Witness ==
    /\ ret.op = "validate"
    /\ ret.raised
    /\ ret.error = "storage_failure"
    /\ ret.id = Some("blocked")
    /\ \A c \in ConvIds : ~conv[c].is_locked /\ conv[c].lock_reason = NULL
    /\ log = <<>>

\* C15: a resend for an active, unlocked conversation whose token is expired
\* succeeds and gives the conversation a token never issued before, expiring 7
\* days after the resend, whatever rows the log holds for the old token.
C15_ResendRecovers ==
    [][ ret'.op = "resend" =>
            \A c \in ConvIds :
                ( /\ ret'.id = Some(c)
                  /\ conv[c].status = "active"
                  /\ ~conv[c].is_locked
                  /\ conv[c].token_expires_at <= now )
                => /\ ret'.success
                   /\ conv'[c].talent_token \notin issued
                   /\ conv'[c].token_expires_at = now + 7 * 1440 ]_vars

\* C16: the log is append-only: every step of validate, unlock, resend and of
\* the clock leaves the rows already logged in place and unmodified.
C16_AppendOnly ==
    [][ /\ Len(log') >= Len(log)
        /\ SubSeq(log', 1, Len(log)) = log ]_vars

\* A token was rotated while the log held rows, and a resend was refused.
C16_Witness ==
    /\ conv["c2"].talent_token = "T3"
    /\ Len(log) >= 2
    /\ ret.op = "resend"
    /\ ~ret.success

\* C17: every row of the log carries one of success, expired, invalid,
\* rate_limited, blocked, and the row appended by a validate call that returns
\* carries the value fixed by the call's outcome.
ResultFor(outcome) ==
    CASE outcome = "invalid_token" -> "invalid"
      [] outcome = "conversation_locked" -> "blocked"
      [] outcome = "token_expired" -> "expired"
      [] outcome \in {"rate_limited", "daily_limit_exceeded"} -> "rate_limited"
      [] outcome = "suspicious_activity" -> "blocked"
      [] outcome = "success" -> "success"

C17_ResultFixedByOutcome ==
    [][ /\ \A i \in DOMAIN log' :
               log'[i].access_result \in
                   {"success", "expired", "invalid", "rate_limited", "blocked"}
        /\ (ret'.op = "validate" /\ ~ret'.raised) =>
               log'[Len(log')].access_result = ResultFor(Outcome(ret')) ]_vars

C17_Witness ==
    /\ ret.op = "validate"
    /\ Outcome(ret) = "token_expired"
    /\ LastRow.access_result = "expired"
    /\ \E i \in DOMAIN log : log[i].access_result = "success"
    /\ \E i \in DOMAIN log : log[i].access_result = "blocked"
    /\ \E i \in DOMAIN log : log[i].access_result = "rate_limited"

\* C18: in every reachable state a conversation that is not locked has no
\* lock_reason, and a locked one carries 'Suspicious access pattern detected'.
C18_LockReasonOnlyWhenLocked ==
    \A c \in ConvIds :
        /\ ~conv[c].is_locked => conv[c].lock_reason = NULL
        /\ conv[c].is_locked => conv[c].lock_reason = Some(SuspiciousReason)

C18_Witness ==
    /\ ret.op = "unlock"
    /\ ret.success
    /\ WasLocked(ret.id[1])
    /\ conv[ret.id[1]].lock_reason = NULL
    /\ \E c \in ConvIds : conv[c].is_locked

\* C19: unlock_conversation returns true exactly when a conversation with the
\* id exists, locked or not, and a second call in a row on the same id returns
\* what the first returned and leaves the store as the first left it.
C19_UnlockTwice ==
    [][ /\ ret'.op = "unlock" => (ret'.success <=> ret'.id[1] \in ConvIds)
        /\ (ret.op = "unlock" /\ ret'.op = "unlock" /\ ret'.id = ret.id) =>
               /\ conv' = conv
               /\ log' = log
               /\ ret'.success = ret.success ]_vars

\* An unlock answered true for a conversation that was never locked.
C19_Witness ==
    /\ ret.op = "unlock"
    /\ ret.success
    /\ ~WasLocked(ret.id[1])
    /\ ~conv[ret.id[1]].is_locked
    /\ log # <<>>

\* C20: a validate call with a user agent that detectBot classifies as a bot,
\* on an unlocked, unexpired token from an address under its limits, locks the
\* conversation and returns suspicious_activity with a blocked row.
C20_ValidatorCoversDetectBot ==
    [][ ret'.op = "validate" =>
            \A rq \in AgentRequests :
                ( /\ detectBot(rq.user_agent[1])
                  /\ Open(rq.talent_token)
                  /\ UnderLimits(rq.ip_address)
                  /\ Call(rq) )
                => /\ Outcome(ret') = "suspicious_activity"
                   /\ conv'[Holder(rq.talent_token)].is_locked
                   /\ log' = Append(log, RowOf(rq, "blocked")) ]_vars

\* ------------------------------------------------------------- C21 .. C30
\* C21: the handler answers rate_limited and daily_limit_exceeded with 429,
\* token_expired with 410, suspicious_activity and conversation_locked with
\* 403, any other error with 400 or 404, and success with 200.
StatusesFor(outcome) ==
    CASE outcome \in {"rate_limited", "daily_limit_exceeded"} -> {429}
      [] outcome = "token_expired" -> {410}
      [] outcome \in {"suspicious_activity", "conversation_locked"} -> {403}
      [] outcome = "success" -> {200}
      [] OTHER -> {400, 404}

C21_StatusMapping ==
    [][ (ret'.op = "validate" /\ ~ret'.raised) =>
            HandlerResponse(ret').status \in StatusesFor(Outcome(ret')) ]_vars

\* C28: rows of every result count toward the hourly limit: a validate call
\* from an address with at least 5 rows in the last hour never returns
\* success, on any token, and a call that returns adds one more row of that
\* address.
C28_RetryNeverSucceeds ==
    [][ ret'.op = "validate" =>
            \A rq \in AllRequests :
                (AttemptsWithin(rq.ip_address, 60) >= 5 /\ Call(rq))
                => /\ Outcome(ret') # "success"
                   /\ ~ret'.raised =>
                          /\ Len(log') = Len(log) + 1
                          /\ log'[Len(log')].ip_address = rq.ip_address ]_vars

\* Five refused attempts, none of them a success, shut out a call on an open
\* token.
C28_Witness ==
    /\ ret.op = "validate"
    /\ Outcome(ret) = "rate_limited"
    /\ Open(LastRow.talent_token)
    /\ AttemptsWithin(LastRow.ip_address, 60) = 6
    /\ \A i \in DOMAIN log :
          log[i].ip_address = LastRow.ip_address => log[i].access_result # "success"

SuccessRows(t) ==
    Cardinality({ i \in DOMAIN log :
        log[i].talent_token = t /\ log[i].access_result = "success" })

SuccessesWithin(ip, minutes) ==
    Cardinality({ i \in DOMAIN log :
        /\ log[i].ip_address = ip
        /\ log[i].access_result = "success"
        /\ now - log[i].created_at < minutes })

\* C22: under every interleaving of validate calls, no call commits a success
\* (the access_count increment with its success row) on a conversation that is
\* locked when the call commits.
C22_NoSuccessOnceLocked ==
    [][ (ret'.op = "validate" /\ ret'.success) =>
            \A c \in ConvIds :
                conv'[c].access_count # conv[c].access_count => ~conv[c].is_locked ]_vars

\* C23: in every reachable state the success rows of one address within the
\* trailing hour number at most 5 when calls have run one at a time, and at
\* most 4 + N when up to N calls have been in flight together.
C23_BoundedPermissive ==
    \A ip \in IPs : SuccessesWithin(ip, 60) <= 4 + peak

\* Two calls in flight read 4 rows each and both succeeded.
C23_Witness ==
    /\ peak = 2
    /\ SuccessesWithin("ip1", 60) = 6
    /\ ret.op = "validate"
    /\ ret.success

\* C24: the access_count returned by a successful validate call equals the
\* conversation's stored access_count right after the call's increment, also
\* when calls on the same token are in flight together.
C24_ReturnedCountIsStored ==
    [][ (ret'.op = "validate" /\ ret'.success) =>
            \A c \in ConvIds :
                conv'[c].access_count # conv[c].access_count
                => ret'.access_count = Some(conv'[c].access_count) ]_vars

\* C25: while a conversation is locked, fetching it by talent token and sending
\* a message by talent token both fail.
C25_LockedTokenRefused ==
    [][ \A t \in Tokens :
            ( /\ Known(t)
              /\ conv[Holder(t)].is_locked
              /\ (get_conversation(t) \/ send_message_by_token(t)) )
            => ~ret'.success ]_vars

\* C26: in every reachable state the access_count of a conversation that
\* still holds its first token equals the number of success rows logged for
\* that token, also with validate calls in flight together.
C26_CountMatchesLedger ==
    \A c \in ConvIds :
        conv[c].talent_token = (IF c = "c1" THEN "T1" ELSE "T2")
        => conv[c].access_count = SuccessRows(conv[c].talent_token)

\* Two calls that both read access_count 0 have both committed.
C26_Witness ==
    /\ ret.op = "validate"
    /\ ret.success
    /\ ret.access_count = Some(1)
    /\ conv["c1"].access_count = 2
    /\ SuccessRows("T1") = 2

\* C27: a POST without a token is answered 400 missing_token, and a POST with a
\* token, a user agent of the handler's bot list and no Referer is answered 403
\* invalid_request; on both paths the log and the conversations are unchanged.
HandlerBots == { Some(UA_Curl), Some(UA_Headless) }

ActiveOfPair(pair) ==
    Cardinality({ c \in ConvIds : ConvPair(c) = pair /\ conv[c].status = "active" })
    + Cardinality({ i \in DOMAIN started :
                      started[i].pair = pair /\ started[i].status = "active" })

C29_OneActivePerPair ==
    \A pair \in StartPairs : ActiveOfPair(pair) <= 1
====
